---- MODULE Spec2Model ----
(***************************************************************************)
(* Job orchestration of the Docling document-processing backend:          *)
(* JobManager (backend/app/services/job_manager.py), the upload endpoint   *)
(* that creates a job and schedules its run (backend/app/api/upload.py)    *)
(* and the conversion service it calls                                     *)
(* (backend/app/services/docling_service.py).                              *)
(*                                                                         *)
(* All handlers are coroutines on one asyncio event loop: a handler runs   *)
(* without interleaving from one suspension point to the next.  The only   *)
(* suspension point inside JobManager.process_document is the await of     *)
(* the conversion in the executor (docling_service.py:76), so a run is     *)
(* two steps: from its start to that await, and from the return of the     *)
(* conversion to the end of the coroutine.                                 *)
(***************************************************************************)
EXTENDS Integers, Sequences, FiniteSets, TLC

\* ------------------------------------------------------------------ bounds
MaxJobs == 2        \* uploads explored
MaxRuns == 2        \* executions of process_document explored
MaxTime == 1        \* ticks of the clock read by datetime.utcnow()
MaxQueueSize == 1   \* largest settings.max_concurrent_jobs explored
MaxLen == 4         \* longest file name given to _sanitize_filename

JobIds == 1..MaxJobs
RunIds == 1..MaxRuns

\* ------------------------------------------------------ values and inputs
PENDING == "pending"
PROCESSING == "processing"
COMPLETED == "completed"
FAILED == "failed"

\* Python's None, one per type of the field that holds it.
NoneTime == -1
NoneStr == <<>>
NoneOptions == "<None>"
NoneResult == [content |-> "<None>", processing_time |-> NoneTime]

\* Messages are the sequence of their parts: f"{prefix}: {inner}".
Msg(prefix, inner) == <<prefix>> \o inner

CancelMessage == <<"Job cancelled by user">>

FileNames == {"a.pdf"}
FileSizes == {10}
OptionInputs == {"{\"k\":1}"}
\* Every kind of `options` an upload can carry: absent, empty, not JSON, an
\* object, and JSON that is not an object.
AllOptionInputs ==
  {NoneOptions, "", "not json", "{\"k\":1}", "{}", "[1]", "null", "0"}
\* What the converter can produce for a document, and how it can fail.
EngineOutputs == {"md1", "md2"}
ConverterErrors == {<<"bad document">>}
InitErrors == {<<"no model">>}

\* json.loads on the option strings of the model: the parsed value, or
\* JSONDecodeError.
JSONDecodeError == "JSONDecodeError"
json_loads(s) ==
  CASE s = "{\"k\":1}" -> "dict(k=1)"
    [] s = "{\"k\": 1}" -> "dict(k=1)"
    [] s = "{}" -> "dict()"
    [] s = "[1]" -> "list(1)"
    [] s = "null" -> "None"
    [] s = "0" -> "int(0)"
    [] OTHER -> JSONDecodeError

\* json.dumps of a parsed value: its canonical text.
json_dumps(v) ==
  CASE v = "dict(k=1)" -> "{\"k\": 1}"
    [] v = "dict()" -> "{}"
    [] v = "list(1)" -> "[1]"
    [] v = "int(0)" -> "0"
    [] v = "None" -> "null"
    [] OTHER -> "null"

\* create_job, lines 54-60: {} unless the string is non-empty and parses.
ParseOptions(options) ==
  IF options = NoneOptions \/ options = ""
    THEN "dict()"
    ELSE IF json_loads(options) = JSONDecodeError
           THEN "dict()"
           ELSE json_loads(options)

\* A run that passes None to the converter when the options do not parse.
ParseRunOptions_NoneOnError(options) ==
  IF options = NoneOptions \/ options = ""
    THEN "dict()"
    ELSE IF json_loads(options) = JSONDecodeError
           THEN "None"
           ELSE json_loads(options)

\* process_document, lines 252-258: the same block, on the run's argument.
ParseRunOptions(options) ==
  IF options = NoneOptions \/ options = ""
    THEN "dict()"
    ELSE IF json_loads(options) = JSONDecodeError
           THEN "dict()"
           ELSE json_loads(options)

\* FileHandler.save_file: upload_dir / job_id / sanitized filename.
save_file(filename, job_id) == <<"uploads", job_id, filename>>

\* ------------------------------------------------------------------ state
VARIABLES
  jobs,              \* JobManager.jobs: job id -> job record
  processing_queue,  \* JobManager.processing_queue: [maxsize, qsize]
  active_jobs,       \* JobManager.active_jobs: ids with a registered task
  model_loaded,      \* DoclingService.model_loaded (converter is set iff TRUE)
  runs,              \* the calls of JobManager.process_document, in call order
  now,               \* the clock datetime.utcnow() reads
  response           \* how the cancel_job or retry_job call that ended in
                     \* this step ended, NoResponse if none did

vars ==
  <<jobs, processing_queue, active_jobs, model_loaded, runs, now, response>>

\* The end of a call of JobManager.cancel_job or JobManager.retry_job as
\* its caller sees it: "returned", or the name of the exception raised.
Response(call, job_id, outcome) ==
  [call |-> call, job_id |-> job_id, outcome |-> outcome]

NoResponse == Response("<none>", 0, "<none>")

\* A call of process_document: its arguments, where it is, and how it ended.
\*   pc: "scheduled" (background task added, body not begun),
\*       "engine" (suspended in the await of the conversion), "done".
\*   exc: str(e) of the exception the try block raised, NoneStr if none.
\*   outcome: "returned" or "raised" once done.
\*   caller: "background" (the task added at upload) or "retry_job" (the
\*       call retry_job awaits, so retry_job returns when it is done).
Run(job_id, file_path, options, pc, caller) ==
  [job_id |-> job_id, file_path |-> file_path, options |-> options,
   pc |-> pc, caller |-> caller, parsed_options |-> "<unset>", start_time |-> NoneTime,
   exc |-> NoneStr, outcome |-> "<running>"]

Init ==
  /\ jobs = <<>>
  /\ processing_queue \in [maxsize : 1..MaxQueueSize, qsize : {0}]
  /\ active_jobs = {}
  /\ model_loaded = FALSE
  /\ runs = <<>>
  /\ now = 0
  /\ response = NoResponse

\* ----------------------------------------------------- JobManager, pure
\* A create_job that reads the clock once per timestamp.
create_job_TwoClockReads(job_id, filename, file_path, file_size, options, t) ==
  [job_id |-> job_id, filename |-> filename, file_path |-> file_path,
   file_size |-> file_size, status |-> PENDING, progress |-> 0,
   created_at |-> t, updated_at |-> t + 1, options |-> ParseOptions(options),
   error |-> NoneStr, result |-> NoneResult,
   started_at |-> NoneTime, completed_at |-> NoneTime]

\* create_job: the record stored for a new job.
create_job(job_id, filename, file_path, file_size, options, t) ==
  [job_id |-> job_id, filename |-> filename, file_path |-> file_path,
   file_size |-> file_size, status |-> PENDING, progress |-> 0,
   created_at |-> t, updated_at |-> t, options |-> ParseOptions(options),
   error |-> NoneStr, result |-> NoneResult,
   started_at |-> NoneTime, completed_at |-> NoneTime]

\* create_job, lines 80-88: the JobInfo it returns.
create_job_return(job_id, filename, file_size, t) ==
  [job_id |-> job_id, filename |-> filename, status |-> PENDING,
   created_at |-> t, updated_at |-> t, file_size |-> file_size,
   progress |-> 0, error |-> NoneStr]

\* get_job_status, lines 109-120, for a job of the store J.  No code writes
\* job["message"], so message is None.
get_job_status(J, job_id) ==
  [job_id |-> job_id, status |-> J[job_id].status,
   progress |-> J[job_id].progress, message |-> NoneStr,
   started_at |-> J[job_id].started_at,
   completed_at |-> J[job_id].completed_at, error |-> J[job_id].error]

\* A result lookup that looks at the stored result only, not at the status.
CanGetResult_AnyWithResult(J, job_id) ==
  /\ job_id \in DOMAIN J
  /\ J[job_id].result # NoneResult

\* get_job_result, lines 135-144: whether the result of job_id is served.
CanGetResult(J, job_id) ==
  /\ job_id \in DOMAIN J
  /\ J[job_id].status = COMPLETED
  /\ J[job_id].result # NoneResult

\* get_job_result, lines 146-165: the ResultResponse built from the record.
get_job_result(J, job_id) ==
  [job_id |-> job_id, original_filename |-> J[job_id].filename,
   processed_content |-> J[job_id].result.content,
   processing_time |-> J[job_id].result.processing_time,
   file_size |-> J[job_id].file_size, created_at |-> J[job_id].completed_at]

\* list_jobs, lines 201-213: the JobInfo of a record.
job_infos(job) ==
  [job_id |-> job.job_id, filename |-> job.filename, status |-> job.status,
   created_at |-> job.created_at, updated_at |-> job.updated_at,
   file_size |-> job.file_size, progress |-> job.progress,
   error |-> job.error]

\* list_jobs, line 187: `status_filter and job["status"] != status_filter`.
\* None and "" are falsy and filter nothing.
NoneFilter == "<None>"
FilteredOut(job, status_filter) ==
  /\ status_filter # NoneFilter
  /\ status_filter # ""
  /\ job.status # status_filter

\* list.sort(key=created_at, reverse=True), line 192.  The sort is stable:
\* records with equal created_at keep the order they had in the list.
RECURSIVE SortNewestFirst(_)
SortNewestFirst(s) ==
  IF s = <<>>
    THEN <<>>
    ELSE LET x == s[Len(s)]
             t == SortNewestFirst(SubSeq(s, 1, Len(s) - 1))
             p == Cardinality({i \in DOMAIN t :
                                 t[i].created_at >= x.created_at})
         IN SubSeq(t, 1, p) \o <<x>> \o SubSeq(t, p + 1, Len(t))

\* list_jobs, lines 184-192: the records of the store J (a dict, iterated in
\* insertion order) that pass the filter, sorted.
filtered_jobs(J, status_filter) ==
  SortNewestFirst(SelectSeq(J, LAMBDA job : ~FilteredOut(job, status_filter)))

\* A page that starts one page too far.
page_jobs_StartsAtPage(filtered, page, per_page) ==
  LET start_idx == page * per_page
      end_idx == start_idx + per_page
      stop == IF end_idx < Len(filtered) THEN end_idx ELSE Len(filtered)
  IN SubSeq(filtered, start_idx + 1, stop)

\* list_jobs, lines 196-198: the slice filtered_jobs[start_idx:end_idx]; a
\* Python slice is cut at the end of the list and empty beyond it.
page_jobs(filtered, page, per_page) ==
  LET start_idx == (page - 1) * per_page
      end_idx == start_idx + per_page
      stop == IF end_idx < Len(filtered) THEN end_idx ELSE Len(filtered)
  IN SubSeq(filtered, start_idx + 1, stop)

\* A beginning of a run that gives way to other coroutines after its first
\* group of writes.
BeginProcessing_FirstWritesOnly(job, t) ==
  [job EXCEPT !.status = PROCESSING, !.started_at = t, !.progress = 10,
              !.updated_at = t]

\* A beginning of a run that does not record when it started.
BeginProcessing_NoStartedAt(job, t) ==
  [job EXCEPT !.status = PROCESSING, !.progress = 30, !.updated_at = t]

\* process_document, lines 246-266: the writes before the conversion call.
BeginProcessing(job, t) ==
  LET j10 == [job EXCEPT !.status = PROCESSING, !.started_at = t,
                         !.progress = 10, !.updated_at = t]
      j20 == [j10 EXCEPT !.progress = 20, !.updated_at = t]
      j30 == [j20 EXCEPT !.progress = 30, !.updated_at = t]
  IN j30

\* A completion that stores the result but leaves the status where it was.
StoreResult_KeepsStatus(job, content, start_time, t) ==
  [job EXCEPT !.progress = 100, !.completed_at = t,
              !.result = [content |-> content,
                          processing_time |-> t - start_time]]

\* A completion that stores the result but leaves the progress where it was.
StoreResult_KeepsProgress(job, content, start_time, t) ==
  [job EXCEPT !.status = COMPLETED, !.completed_at = t,
              !.result = [content |-> content,
                          processing_time |-> t - start_time]]

\* process_document, lines 273-281: the conversion returned `content`.
StoreResult(job, content, start_time, t) ==
  [job EXCEPT !.status = COMPLETED, !.progress = 100, !.completed_at = t,
              !.result = [content |-> content,
                          processing_time |-> t - start_time]]

\* An except block that records a fixed text instead of str(e).
HandleException_GenericError(job, msg, t) ==
  [job EXCEPT !.status = FAILED, !.error = <<"Processing failed">>,
              !.completed_at = t]

\* An except block that records the error but leaves the status as it was.
HandleException_KeepsStatus(job, msg, t) ==
  [job EXCEPT !.error = msg, !.completed_at = t]

\* process_document, lines 285-290: the except block, e with str(e) = msg.
HandleException(job, msg, t) ==
  [job EXCEPT !.status = FAILED, !.error = msg, !.completed_at = t]

\* How the call ends after the except block: nothing is raised again.
ExceptOutcome == "returned"

\* A finally block that leaves updated_at alone.
Finally_NoUpdate(job, t) == job

\* process_document, lines 292-293: the finally block's write to the job.
Finally(job, t) == [job EXCEPT !.updated_at = t]

\* process_document, lines 294-296: the finally block's write to active_jobs.
FinallyActive(active, job_id) ==
  IF job_id \in active THEN active \ {job_id} ELSE active

\* cancel_job, lines 308-311: cancel and forget the registered task.
CancelActive(active, job_id) ==
  IF job_id \in active THEN active \ {job_id} ELSE active

\* A cancel that marks the job failed without stamping completed_at.
MarkCancelled_NoCompletedAt(job, t) ==
  [job EXCEPT !.status = FAILED, !.error = CancelMessage, !.updated_at = t]

\* cancel_job, lines 313-317.
MarkCancelled(job, t) ==
  [job EXCEPT !.status = FAILED, !.error = CancelMessage,
              !.completed_at = t, !.updated_at = t]

\* A reset that also forgets the options of the job.
ResetForRetry_DropsOptions(job, t) ==
  [job EXCEPT !.status = PENDING, !.progress = 0, !.error = NoneStr,
              !.updated_at = t, !.options = "dict()"]

\* A reset that leaves the old error on the job.
ResetForRetry_KeepsError(job, t) ==
  [job EXCEPT !.status = PENDING, !.progress = 0, !.updated_at = t]

\* retry_job, lines 329-333.
ResetForRetry(job, t) ==
  [job EXCEPT !.status = PENDING, !.progress = 0, !.error = NoneStr,
              !.updated_at = t]

\* ------------------------------------------------------ DoclingService
\* str(e) of what DoclingService.process_document raises when the
\* conversion fails with `err`: _convert_document wraps it, then
\* process_document wraps that.
ConversionFailure(err) ==
  Msg("Processing failed", Msg("Docling conversion failed", err))

\* An initialize that lets the error of DocumentConverter() through as it is.
InitFailure_Unwrapped(err) == err

\* str(e) of what DoclingService.initialize raises when DocumentConverter()
\* fails with `err`.
InitFailure(err) == Msg("Model initialization failed", err)

\* ---------------------------------------------------------------- actions
\* How a call that is over is recorded: what it caught and how it ended.
\* Its local variables are gone.
Done(run, exc, outcome) ==
  [run EXCEPT !.pc = "done", !.exc = exc, !.outcome = outcome,
              !.parsed_options = "<unset>", !.start_time = NoneTime]

\* JobManager.process_document as call r of R on the job store J, from its
\* first line to its first suspension: the await of the conversion, or the
\* end of the coroutine when DoclingService.initialize raises before it.
process_document(J, R, r) ==
  LET run == R[r]
      job_id == run.job_id
  IN IF job_id \notin DOMAIN J
       THEN /\ jobs' = J
            /\ runs' = [R EXCEPT ![r] = Done(run, NoneStr, "returned")]
            /\ UNCHANGED <<model_loaded, active_jobs>>
       ELSE LET started == BeginProcessing(J[job_id], now)
                parsed == ParseRunOptions(run.options)
            IN \/ \* the model is loaded, or initialize() loads it: the
                  \* conversion is handed to the executor
                  /\ model_loaded' = TRUE
                  /\ jobs' = [J EXCEPT ![job_id] = started]
                  /\ runs' = [R EXCEPT ![r] =
                                [run EXCEPT !.pc = "engine",
                                            !.parsed_options = parsed,
                                            !.start_time = now]]
                  /\ UNCHANGED active_jobs
               \/ \* initialize() raises: except and finally blocks run
                  /\ ~model_loaded
                  /\ \E err \in InitErrors :
                       /\ jobs' = [J EXCEPT ![job_id] =
                                     Finally(HandleException(started,
                                               InitFailure(err), now), now)]
                       /\ runs' = [R EXCEPT ![r] =
                                     Done([run EXCEPT !.parsed_options = parsed,
                                                      !.start_time = now],
                                          InitFailure(err), ExceptOutcome)]
                  /\ active_jobs' = FinallyActive(active_jobs, job_id)
                  /\ UNCHANGED model_loaded

\* upload_document (api/upload.py:46-67) for a file that passed validation:
\* a fresh uuid4 id, the file saved, the job created and its run added as a
\* background task.
upload_document(filename, file_size, options) ==
  /\ Len(jobs) < MaxJobs
  /\ Len(runs) < MaxRuns
  /\ LET job_id == Len(jobs) + 1
         file_path == save_file(filename, job_id)
     IN /\ jobs' = Append(jobs, create_job(job_id, filename, file_path,
                                           file_size, options, now))
        /\ runs' = Append(runs, Run(job_id, file_path, options, "scheduled",
                                "background"))
  /\ response' = NoResponse
  /\ UNCHANGED <<processing_queue, active_jobs, model_loaded, now>>

\* The event loop starts the background task r.
RunBegin(r) ==
  /\ r \in DOMAIN runs
  /\ runs[r].pc = "scheduled"
  /\ process_document(jobs, runs, r)
  /\ response' = NoResponse
  /\ UNCHANGED <<processing_queue, now>>

\* What the end of run r means to the caller of retry_job: retry_job awaits
\* the run it starts (line 336) and ends as that run ends; the end of a
\* background task is seen by no caller.
RunResponse(run) ==
  IF run.caller = "retry_job" /\ run.pc = "done"
    THEN Response("retry_job", run.job_id, run.outcome)
    ELSE NoResponse

\* The conversion awaited by run r returns `content`.
EngineSucceed(r, content) ==
  /\ r \in DOMAIN runs
  /\ runs[r].pc = "engine"
  /\ LET run == runs[r]
         job_id == run.job_id
     IN /\ jobs' = [jobs EXCEPT ![job_id] =
                      Finally(StoreResult(@, content, run.start_time, now),
                              now)]
        /\ runs' = [runs EXCEPT ![r] = Done(run, NoneStr, "returned")]
        /\ active_jobs' = FinallyActive(active_jobs, job_id)
  /\ response' = RunResponse(runs'[r])
  /\ UNCHANGED <<processing_queue, model_loaded, now>>

\* The conversion awaited by run r raises.
EngineFail(r, err) ==
  /\ r \in DOMAIN runs
  /\ runs[r].pc = "engine"
  /\ LET run == runs[r]
         job_id == run.job_id
         msg == ConversionFailure(err)
     IN /\ jobs' = [jobs EXCEPT ![job_id] =
                      Finally(HandleException(@, msg, now), now)]
        /\ runs' = [runs EXCEPT ![r] = Done(run, msg, ExceptOutcome)]
        /\ active_jobs' = FinallyActive(active_jobs, job_id)
  /\ response' = RunResponse(runs'[r])
  /\ UNCHANGED <<processing_queue, model_loaded, now>>

\* A cancel_job that only accepts jobs whose run has not begun.
CanCancel_PendingOnly(job_id) ==
  /\ job_id \in DOMAIN jobs
  /\ jobs[job_id].status = PENDING

\* A cancel_job that refuses completed jobs only.
CanCancel_CompletedOnly(job_id) ==
  /\ job_id \in DOMAIN jobs
  /\ jobs[job_id].status # COMPLETED

\* Whether cancel_job accepts the job (lines 300-306).
CanCancel(job_id) ==
  /\ job_id \in DOMAIN jobs
  /\ jobs[job_id].status \notin {COMPLETED, FAILED}

\* cancel_job on a job it accepts.  No code adds to active_jobs, so the
\* task-cancelling branch finds nothing to cancel.
cancel_job(job_id) ==
  /\ CanCancel(job_id)
  /\ active_jobs' = CancelActive(active_jobs, job_id)
  /\ jobs' = [jobs EXCEPT ![job_id] = MarkCancelled(@, now)]
  /\ response' = Response("cancel_job", job_id, "returned")
  /\ UNCHANGED <<processing_queue, model_loaded, runs, now>>

\* cancel_job on a job it does not accept: the exception of lines 300-306,
\* nothing written.
cancel_job_rejected(job_id) ==
  /\ ~CanCancel(job_id)
  /\ response' = Response("cancel_job", job_id,
                          IF job_id \notin DOMAIN jobs
                            THEN "NotFoundError" ELSE "ProcessingError")
  /\ UNCHANGED <<jobs, processing_queue, active_jobs, model_loaded, runs,
                 now>>

\* A retry_job that accepts every finished job, completed ones too.
CanRetry_AnyTerminal(job_id) ==
  /\ job_id \in DOMAIN jobs
  /\ jobs[job_id].status \in {FAILED, COMPLETED}

\* Whether retry_job accepts the job (lines 321-327).
CanRetry(job_id) ==
  /\ job_id \in DOMAIN jobs
  /\ jobs[job_id].status = FAILED

\* retry_job on a job it accepts: the reset, then process_document awaited
\* in the same coroutine, so the run begins without any step in between.
retry_job(job_id) ==
  /\ CanRetry(job_id)
  /\ Len(runs) < MaxRuns
  /\ LET J == [jobs EXCEPT ![job_id] = ResetForRetry(@, now)]
         R == Append(runs, Run(job_id, jobs[job_id].file_path,
                               json_dumps(jobs[job_id].options), "scheduled",
                               "retry_job"))
     IN process_document(J, R, Len(R))
  /\ response' = RunResponse(runs'[Len(runs')])
  /\ UNCHANGED <<processing_queue, now>>

\* retry_job on a job it does not accept: the exception of lines 321-327,
\* nothing written and no run started.
retry_job_rejected(job_id) ==
  /\ ~CanRetry(job_id)
  /\ response' = Response("retry_job", job_id,
                          IF job_id \notin DOMAIN jobs
                            THEN "NotFoundError" ELSE "ProcessingError")
  /\ UNCHANGED <<jobs, processing_queue, active_jobs, model_loaded, runs,
                 now>>

\* An endpoint that answers 500 to every exception.
http_status_AllErrors500(outcome) ==
  IF outcome = "returned" THEN 200 ELSE 500

\* The HTTP status the endpoints of api/status.py and api/results.py answer
\* with: 200 when the JobManager call returned, 404 for NotFoundError, 500
\* for every other exception.
http_status(outcome) ==
  CASE outcome = "returned" -> 200
    [] outcome = "NotFoundError" -> 404
    [] OTHER -> 500

\* The end of a call that returns a value.
Returned(call, job_id, payload) ==
  [call |-> call, job_id |-> job_id, outcome |-> "returned",
   payload |-> payload]

\* A call of get_job_status (lines 105-120).
get_job_status_call(job_id) ==
  /\ response' = IF job_id \notin DOMAIN jobs
                   THEN Response("get_job_status", job_id, "NotFoundError")
                   ELSE Returned("get_job_status", job_id,
                                 get_job_status(jobs, job_id))
  /\ UNCHANGED <<jobs, processing_queue, active_jobs, model_loaded, runs,
                 now>>

\* A result lookup that hands the result out once and then forgets it.
get_job_result_call_PopsResult(job_id) ==
  /\ response' = IF CanGetResult(jobs, job_id)
                   THEN Returned("get_job_result", job_id,
                                 get_job_result(jobs, job_id))
                   ELSE Response("get_job_result", job_id, "NotFoundError")
  /\ jobs' = IF CanGetResult(jobs, job_id)
               THEN [jobs EXCEPT ![job_id].result = NoneResult]
               ELSE jobs
  /\ UNCHANGED <<processing_queue, active_jobs, model_loaded, runs, now>>

\* A call of get_job_result (lines 135-165).
get_job_result_call(job_id) ==
  /\ response' = IF CanGetResult(jobs, job_id)
                   THEN Returned("get_job_result", job_id,
                                 get_job_result(jobs, job_id))
                   ELSE Response("get_job_result", job_id, "NotFoundError")
  /\ UNCHANGED <<jobs, processing_queue, active_jobs, model_loaded, runs,
                 now>>

\* The pages, page sizes and filters the listing is asked for.  The
\* endpoint admits page >= 1 and 1 <= per_page <= 100 only.
MaxPage == 2
MaxPerPage == 2
Pages == 1..MaxPage
PerPages == 1..MaxPerPage
StatusFilters == {NoneFilter, "", PENDING, FAILED}

\* A call of list_jobs (lines 184-220).
list_jobs(page, per_page, status_filter) ==
  /\ LET filtered == filtered_jobs(jobs, status_filter)
         shown == page_jobs(filtered, page, per_page)
     IN response' =
          [call |-> "list_jobs", job_id |-> 0, outcome |-> "returned",
           status_filter |-> status_filter,
           payload |-> [jobs |-> [i \in DOMAIN shown |-> job_infos(shown[i])],
                        total |-> Len(filtered),
                        page |-> page, per_page |-> per_page]]
  /\ UNCHANGED <<jobs, processing_queue, active_jobs, model_loaded, runs,
                 now>>

\* ------------------------------------------------------------ FileHandler
\* File names are sequences of characters.
\* The last index of character c in s, 0 if there is none.
LastIndexOf(s, c) ==
  IF \E i \in DOMAIN s : s[i] = c
    THEN CHOOSE i \in DOMAIN s : s[i] = c /\ \A k \in DOMAIN s : s[k] = c => k <= i
    ELSE 0

\* str.lower() on the characters of the model.
LowerChar(c) ==
  CASE c = "P" -> "p" [] c = "D" -> "d" [] c = "F" -> "f" [] OTHER -> c
Lower(s) == [i \in DOMAIN s |-> LowerChar(s[i])]

\* Path(filename).name for a name that does not end with a separator: what
\* follows the last "/".
PathName(s) == SubSeq(s, LastIndexOf(s, "/") + 1, Len(s))

\* Path(filename).suffix: from the last "." of the name on, unless that dot
\* is the first or the last character of the name.
Suffix(s) ==
  LET name == PathName(s)
      i == LastIndexOf(name, ".")
  IN IF 1 < i /\ i < Len(name) THEN SubSeq(name, i, Len(name)) ELSE <<>>

\* settings.max_file_size and settings.allowed_extensions (config.py:34-41).
max_file_size == 50 * 1024 * 1024
allowed_extensions ==
  {<<".", "p", "d", "f">>,
   <<".", "d", "o", "c", "x">>,
   <<".", "p", "p", "t", "x">>,
   <<".", "x", "l", "s", "x">>,
   <<".", "h", "t", "m", "l">>,
   <<".", "p", "n", "g">>,
   <<".", "j", "p", "g">>,
   <<".", "j", "p", "e", "g">>,
   <<".", "t", "i", "f", "f">>,
   <<".", "w", "a", "v">>,
   <<".", "m", "p", "3">>}

\* The ValidationError of validate_file with its message, and no error.
ValidationError(message) == [outcome |-> "ValidationError", message |-> message]
Accepted == [outcome |-> "returned", message |-> "<None>"]

\* Lines 62-73: the MIME check.  A mismatch raises ValidationError inside
\* the try block, and `except (ImportError, Exception)` catches it as it
\* catches the failing import: the check never rejects a file.
MimeCheck(magic) ==
  LET raised == IF magic = "ImportError" THEN "ImportError"
                ELSE IF magic = "mismatch" THEN "ValidationError"
                ELSE "<none>"
      caught == raised \in {"ImportError", "ValidationError", "<none>"}
  IN IF caught THEN Accepted
     ELSE ValidationError("does not match extension")

\* A validate_file that looks at the extension before the size.
validate_file_ExtensionFirst(file) ==
  IF file.filename = NoneStr
    THEN ValidationError("Filename is required")
  ELSE IF Lower(Suffix(file.filename)) \notin allowed_extensions
    THEN ValidationError("is not supported")
  ELSE IF file.size > max_file_size
    THEN ValidationError("exceeds maximum allowed size")
  ELSE IF file.chunk = ""
    THEN ValidationError("File appears to be empty")
  ELSE MimeCheck(file.magic)

\* FileHandler.validate_file (lines 36-73).  file.filename is None or ""
\* when missing: both are NoneStr, the empty sequence.
validate_file(file) ==
  IF file.size > max_file_size
    THEN ValidationError("exceeds maximum allowed size")
  ELSE IF file.filename = NoneStr
    THEN ValidationError("Filename is required")
  ELSE IF Lower(Suffix(file.filename)) \notin allowed_extensions
    THEN ValidationError("is not supported")
  ELSE IF file.chunk = ""
    THEN ValidationError("File appears to be empty")
  ELSE MimeCheck(file.magic)

\* os.path.basename (posixpath): what follows the last "/".
basename(s) == SubSeq(s, LastIndexOf(s, "/") + 1, Len(s))

\* str.replace("..", "_"): the occurrences are found from left to right and
\* do not overlap.
RECURSIVE ReplaceDotDot(_)
ReplaceDotDot(s) ==
  IF Len(s) < 2 THEN s
  ELSE IF s[1] = "." /\ s[2] = "."
    THEN <<"_">> \o ReplaceDotDot(SubSeq(s, 3, Len(s)))
    ELSE <<s[1]>> \o ReplaceDotDot(Tail(s))

\* str.replace(c, "_") for a single character c.
ReplaceChar(s, c) == [i \in DOMAIN s |-> IF s[i] = c THEN "_" ELSE s[i]]

\* The single characters of dangerous_chars (line 141), in their order.
DangerousChars == <<"/", "\\", ":", "*", "?", "\"", "<", ">", "|">>

RECURSIVE ReplaceAll(_, _)
ReplaceAll(s, chars) ==
  IF chars = <<>> THEN s
  ELSE ReplaceAll(ReplaceChar(s, Head(chars)), Tail(chars))

\* A sanitizer that replaces the single characters and forgets "..".
_sanitize_filename_NoDotDot(filename) ==
  ReplaceAll(basename(filename), DangerousChars)

\* FileHandler._sanitize_filename (lines 135-145).
_sanitize_filename(filename) ==
  ReplaceAll(ReplaceDotDot(basename(filename)), DangerousChars)

\* The uploads validate_file is given: sizes around the limit, names with
\* and without an allowed extension, a first chunk that is empty or not, and
\* what python-magic does.
ValidateNames ==
  {NoneStr,
   <<"a", ".", "p", "d", "f">>,
   <<"a", ".", "P", "D", "F">>,
   <<"a", ".", "e", "x", "e">>,
   <<"a">>,
   <<".", "p", "d", "f">>,
   <<"a", ".", "p", "d", "f", ".", "e", "x", "e">>,
   <<"d", "/", "a", ".", "p", "d", "f">>,
   <<"a", ".", "m", "p", "3">>}
UploadFiles ==
  [size : {1024, max_file_size, max_file_size + 1},
   filename : ValidateNames,
   chunk : {"", "%PDF"},
   magic : {"ImportError", "allowed", "mismatch"}]

\* The names _sanitize_filename is given: every sequence of at most MaxLen
\* of these characters.
Alphabet == {"a", ".", "/", "\\", ":"}
SanitizeNames == UNION {[1..n -> Alphabet] : n \in 0..MaxLen}

\* A call of validate_file.
validate_file_call(file) ==
  /\ response' = [call |-> "validate_file", job_id |-> 0, file |-> file,
                  outcome |-> validate_file(file).outcome,
                  message |-> validate_file(file).message]
  /\ UNCHANGED <<jobs, processing_queue, active_jobs, model_loaded, runs,
                 now>>

\* A call of _sanitize_filename.
sanitize_filename_call(filename) ==
  /\ response' = [call |-> "_sanitize_filename", job_id |-> 0,
                  filename |-> filename, outcome |-> "returned",
                  payload |-> _sanitize_filename(filename)]
  /\ UNCHANGED <<jobs, processing_queue, active_jobs, model_loaded, runs,
                 now>>

\* Time passes between two steps of the event loop.
Tick ==
  /\ now < MaxTime
  /\ now' = now + 1
  /\ response' = NoResponse
  /\ UNCHANGED <<jobs, processing_queue, active_jobs, model_loaded, runs>>

\* The steps that write to the program's state.  The calls of cancel_job
\* and retry_job that are refused write nothing but `response`; they are
\* steps of NextCalls below.
Next ==
  \/ \E f \in FileNames, s \in FileSizes, o \in OptionInputs :
       upload_document(f, s, o)
  \/ \E r \in RunIds : RunBegin(r)
  \/ \E r \in RunIds, c \in EngineOutputs : EngineSucceed(r, c)
  \/ \E r \in RunIds, e \in ConverterErrors : EngineFail(r, e)
  \/ \E j \in JobIds : cancel_job(j)
  \/ \E j \in JobIds : retry_job(j)
  \/ Tick

Spec == Init /\ [][Next]_vars

\* -------------------------------------------------------------- fairness
\* The conversion awaited by run r returns, one way or the other.
EngineReturn(r) ==
  \/ \E c \in EngineOutputs : EngineSucceed(r, c)
  \/ \E e \in ConverterErrors : EngineFail(r, e)

\* The steps of the program with the clock held still.  No guard reads the
\* clock, so the order of the other steps is the same with and without Tick.
NextNoTick ==
  \/ \E f \in FileNames, s \in FileSizes, o \in OptionInputs :
       upload_document(f, s, o)
  \/ \E r \in RunIds : RunBegin(r)
  \/ \E r \in RunIds : EngineReturn(r)
  \/ \E j \in JobIds : cancel_job(j)
  \/ \E j \in JobIds : retry_job(j)

\* The same steps, and the calls of cancel_job and retry_job that are
\* refused.  A refused call writes nothing to the job store, so it adds no
\* state of the store to those of NextNoTick: it only shows in `response`.
NextCalls ==
  \/ \E f \in FileNames, s \in FileSizes, o \in OptionInputs :
       upload_document(f, s, o)
  \/ \E r \in RunIds : RunBegin(r)
  \/ \E r \in RunIds : EngineReturn(r)
  \/ \E j \in JobIds : cancel_job(j)
  \/ \E j \in JobIds : cancel_job_rejected(j)
  \/ \E j \in JobIds : retry_job(j)
  \/ \E j \in JobIds : retry_job_rejected(j)

CallSpec == Init /\ [][NextCalls]_vars

\* The steps of NextCalls, and the calls that only read the job store; the
\* listing is the one the endpoint gives by default (page 1, 10 per page, no
\* filter).
NextReads ==
  \/ \E f \in FileNames, s \in FileSizes, o \in OptionInputs :
       upload_document(f, s, o)
  \/ \E r \in RunIds : RunBegin(r)
  \/ \E r \in RunIds : EngineReturn(r)
  \/ \E j \in JobIds : cancel_job(j)
  \/ \E j \in JobIds : cancel_job_rejected(j)
  \/ \E j \in JobIds : retry_job(j)
  \/ \E j \in JobIds : retry_job_rejected(j)
  \/ \E j \in JobIds : get_job_status_call(j)
  \/ \E j \in JobIds : get_job_result_call(j)
  \/ list_jobs(1, 10, NoneFilter)

ReadSpec == Init /\ [][NextReads]_vars

\* Jobs are created and cancelled while the clock runs, and listed.
NextList ==
  \/ \E f \in FileNames, s \in FileSizes, o \in OptionInputs :
       upload_document(f, s, o)
  \/ \E j \in JobIds : cancel_job(j)
  \/ Tick
  \/ \E p \in Pages, n \in PerPages, f \in StatusFilters : list_jobs(p, n, f)

ListSpec == Init /\ [][NextList]_vars

\* The life of one document, submitted with any of the option strings,
\* while the clock runs.
NextOptions ==
  \/ /\ jobs = <<>>
     /\ \E f \in FileNames, s \in FileSizes, o \in AllOptionInputs :
          upload_document(f, s, o)
  \/ \E r \in RunIds : RunBegin(r)
  \/ \E r \in RunIds : EngineReturn(r)
  \/ \E j \in JobIds : cancel_job(j)
  \/ \E j \in JobIds : retry_job(j)
  \/ Tick

OptionSpec == Init /\ [][NextOptions]_vars

\* The file handler called on one upload: its two functions take nothing
\* from the job store and leave nothing behind.
NextFile ==
  \/ /\ response = NoResponse
     /\ \E file \in UploadFiles : validate_file_call(file)
  \/ /\ response = NoResponse
     /\ \E filename \in SanitizeNames : sanitize_filename_call(filename)

FileSpec == Init /\ [][NextFile]_vars

\* The event loop starts every background task it was given, and every
\* conversion handed to the executor returns.
Fairness ==
  \A r \in RunIds : WF_vars(RunBegin(r)) /\ WF_vars(EngineReturn(r))

FairSpec == Init /\ [][NextNoTick]_vars /\ Fairness

\* ------------------------------------------------------------ vocabulary
Status(j) == jobs[j].status
RunsOf(j) == {r \in DOMAIN runs : runs[r].job_id = j}
\* The runs suspended in the conversion call.
InEngine == {r \in DOMAIN runs : runs[r].pc = "engine"}
Processing == {j \in DOMAIN jobs : Status(j) = PROCESSING}
\* Slots of the limiter that are taken.
HeldSlots == processing_queue.qsize

\* ----------------------------------------------------------------- claims

\* C1: in every reachable state the number of jobs whose state is
\* `processing` is at most the configured max_concurrent_jobs.
C1_ProcessingWithinLimit ==
  Cardinality(Processing) <= processing_queue.maxsize

\* C2: for every job id at most one run is inside the conversion call at
\* any time; a run requested while another is active does not reach the
\* conversion engine.
C2_OneActiveRunPerJob ==
  \A j \in DOMAIN jobs : Cardinality(RunsOf(j) \cap InEngine) <= 1

\* C3: a job whose error is set is in state `failed`.
C3_ErrorOnlyWhenFailed ==
  \A j \in DOMAIN jobs : jobs[j].error # NoneStr => Status(j) = FAILED

\* C4: a job whose result is set is in state `completed`.
C4_ResultOnlyWhenCompleted ==
  \A j \in DOMAIN jobs : jobs[j].result # NoneResult => Status(j) = COMPLETED

\* C5: once a job is `completed` it stays `completed` and its stored result
\* is not replaced or removed by any later step.
C5_CompletedIsStable ==
  [][\A j \in DOMAIN jobs :
       Status(j) = COMPLETED =>
         /\ jobs'[j].status = COMPLETED
         /\ jobs'[j].result = jobs[j].result]_vars

\* C6: a job in state `failed` changes state only in a step of retry_job
\* for that job; in particular no run in flight when cancel succeeded moves
\* it to `processing` or `completed` afterwards.
C6_FailedLeftOnlyByRetry ==
  [][\A j \in DOMAIN jobs :
       (Status(j) = FAILED /\ jobs'[j].status # FAILED) => retry_job(j)]_vars

\* A job cancelled before any run of it began and not retried since: no run
\* ever wrote started_at, which also every run that retry starts would do.
CancelledWhilePending(j) ==
  /\ Status(j) = FAILED
  /\ jobs[j].error = CancelMessage
  /\ jobs[j].started_at = NoneTime

\* C7: a job cancelled while still `pending` and not retried never enters
\* `processing`, and the conversion is never started for it.
C7_CancelledPendingNeverStarts ==
  [][\A j \in DOMAIN jobs :
       (CancelledWhilePending(j) /\ ~retry_job(j)) =>
         /\ jobs'[j].status # PROCESSING
         /\ \A r \in DOMAIN runs' :
              runs'[r].job_id = j => runs'[r].pc # "engine"]_vars

\* C8: the number of limiter slots held equals the number of runs inside
\* the conversion call (so it is 0 when no run is active).
C8_SlotsMatchRunsInEngine ==
  HeldSlots = Cardinality(InEngine)

\* Run r ends in this step with an exception caught from the conversion
\* service.
EndsWithEngineError(r) ==
  /\ r \in DOMAIN runs'
  /\ runs'[r].pc = "done"
  /\ (r \in DOMAIN runs => runs[r].pc # "done")
  /\ runs'[r].exc # NoneStr

\* C9: whenever the conversion service raises during a run, the run returns
\* normally and leaves the job `failed`, with error equal to the message of
\* the exception and completed_at set.
C9_EngineErrorIsRecorded ==
  [][\A r \in RunIds :
       EndsWithEngineError(r) =>
         LET job == jobs'[runs'[r].job_id]
         IN /\ runs'[r].outcome = "returned"
            /\ job.status = FAILED
            /\ job.error = runs'[r].exc
            /\ job.completed_at # NoneTime]_vars

\* A run ended by a failure of the conversion itself, recorded on its job.
C9_Witness ==
  \E r \in DOMAIN runs, e \in ConverterErrors :
    /\ runs[r].pc = "done"
    /\ runs[r].exc = ConversionFailure(e)
    /\ runs[r].outcome = "returned"
    /\ jobs[runs[r].job_id].error = ConversionFailure(e)
    /\ Status(runs[r].job_id) = FAILED

\* C10: with the event loop starting every scheduled run and every
\* conversion returning, every submitted job is eventually admitted (a run
\* of it begins) and every `pending` or `processing` job eventually is
\* `completed` or `failed`.
C10_EveryJobTerminates ==
  \A j \in JobIds :
    /\ (j \in DOMAIN jobs)
         ~> (j \in DOMAIN jobs /\ jobs[j].started_at # NoneTime)
    /\ (j \in DOMAIN jobs /\ Status(j) \in {PENDING, PROCESSING})
         ~> (j \in DOMAIN jobs /\ Status(j) \in {COMPLETED, FAILED})

\* A job that went through its run and holds the converter's output.
C10_Witness ==
  \E j \in DOMAIN jobs :
    /\ Status(j) = COMPLETED
    /\ jobs[j].result # NoneResult
    /\ jobs[j].started_at # NoneTime
    /\ \A r \in RunsOf(j) : runs[r].pc = "done"

\* C11: a job in state `completed` has a result and progress 100.
C11_CompletedHasResult ==
  \A j \in DOMAIN jobs :
    Status(j) = COMPLETED =>
      /\ jobs[j].result # NoneResult
      /\ jobs[j].progress = 100

\* A completed job that a second run of it is still converting.
C11_Witness ==
  \E j \in DOMAIN jobs :
    /\ Status(j) = COMPLETED
    /\ jobs[j].progress = 100
    /\ jobs[j].result.content \in EngineOutputs
    /\ RunsOf(j) \cap InEngine # {}

\* C12: a job in state `failed` has an error and completed_at set.
C12_FailedHasError ==
  \A j \in DOMAIN jobs :
    Status(j) = FAILED =>
      /\ jobs[j].error # NoneStr
      /\ jobs[j].completed_at # NoneTime

\* Both ways of failing: a cancelled job, and a job whose run failed.
C12_Witness ==
  /\ \E j \in DOMAIN jobs :
       /\ Status(j) = FAILED
       /\ jobs[j].error = CancelMessage
       /\ jobs[j].completed_at # NoneTime
  /\ \E j \in DOMAIN jobs :
       /\ Status(j) = FAILED
       /\ jobs[j].error # CancelMessage
       /\ jobs[j].completed_at # NoneTime

\* A call of cancel_job / retry_job for job_id, accepted or refused.
CancelCall(job_id) == cancel_job(job_id) \/ cancel_job_rejected(job_id)
RetryCall(job_id) == retry_job(job_id) \/ retry_job_rejected(job_id)

\* What the job store, the runs and the service look like to a caller.
store == <<jobs, processing_queue, active_jobs, model_loaded, runs>>

\* cancel_job on a `pending` or `processing` job returns and leaves the job
\* `failed` with completed_at set and `error` equal to `message`.
CancelMarksFailed(message) ==
  \A j \in DOMAIN jobs :
    (Status(j) \in {PENDING, PROCESSING} /\ CancelCall(j)) =>
      /\ response' = Response("cancel_job", j, "returned")
      /\ jobs'[j].status = FAILED
      /\ jobs'[j].error = message
      /\ jobs'[j].completed_at # NoneTime

C14_CancelRefusedWhenTerminal ==
  [][\A j \in DOMAIN jobs :
       (Status(j) \in {COMPLETED, FAILED} /\ CancelCall(j)) =>
         /\ response' = Response("cancel_job", j, "ProcessingError")
         /\ UNCHANGED store]_vars

\* A second cancel of a cancelled job has just been refused.
C14_Witness ==
  \E j \in DOMAIN jobs :
    /\ response = Response("cancel_job", j, "ProcessingError")
    /\ Status(j) = FAILED
    /\ jobs[j].error = CancelMessage

\* C15: `retry` on a `pending`, `processing` or `completed` job raises
\* ProcessingError, changes nothing and starts no run.
C15_RetryRefusedUnlessFailed ==
  [][\A j \in DOMAIN jobs :
       (Status(j) \in {PENDING, PROCESSING, COMPLETED} /\ RetryCall(j)) =>
         /\ response' = Response("retry_job", j, "ProcessingError")
         /\ runs' = runs
         /\ UNCHANGED store]_vars

\* A retry of a completed job has just been refused.
C15_Witness ==
  \E j \in DOMAIN jobs :
    /\ response = Response("retry_job", j, "ProcessingError")
    /\ Status(j) = COMPLETED

\* C16: `retry` on a `failed` job moves it to `pending` with progress 0 and
\* no error and then enters a run of that job: after the step the job is
\* what the beginning of a run makes of the reset record (or, when the
\* service cannot be initialised, failed again), and a run called by
\* retry_job exists for it.
C16_RetryResetsAndReruns ==
  [][\A j \in DOMAIN jobs :
       retry_job(j) =>
         LET reset == [jobs[j] EXCEPT !.status = PENDING, !.progress = 0,
                                      !.error = NoneStr, !.updated_at = now]
             r == Len(runs) + 1
         IN /\ Status(j) = FAILED
            /\ Len(runs') = r
            /\ runs'[r].job_id = j
            /\ runs'[r].caller = "retry_job"
            /\ runs'[r].pc \in {"engine", "done"}
            /\ runs'[r].pc = "engine" =>
                 /\ jobs'[j] = BeginProcessing(reset, now)
                 /\ jobs'[j].error = NoneStr
            /\ runs'[r].pc = "done" =>
                 /\ jobs'[j].status = FAILED
                 /\ jobs'[j].error = runs'[r].exc]_vars

\* The run that retry started has completed the job.
C16_Witness ==
  \E r \in DOMAIN runs :
    /\ runs[r].caller = "retry_job"
    /\ runs[r].pc = "done"
    /\ runs[r].exc = NoneStr
    /\ Status(runs[r].job_id) = COMPLETED
    /\ jobs[runs[r].job_id].error = NoneStr

\* C17: when retry(id) has returned to its caller, status(id) reports
\* `pending`, progress 0 and no error (the job is queued, its conversion
\* not awaited).
C17_RetryReturnsWhilePending ==
  \A j \in DOMAIN jobs :
    response = Response("retry_job", j, "returned") =>
      /\ get_job_status(jobs, j).status = PENDING
      /\ get_job_status(jobs, j).progress = 0
      /\ get_job_status(jobs, j).error = NoneStr

\* C18: a `pending` or `processing` job has completed_at unset.
C18_CompletedAtOnlyWhenTerminal ==
  \A j \in DOMAIN jobs :
    Status(j) \in {PENDING, PROCESSING} => jobs[j].completed_at = NoneTime

\* C19: progress is in 0..100 and decreases only in a step of retry_job for
\* that job.
C19_ProgressMonotone ==
  [][\A j \in DOMAIN jobs :
       /\ jobs'[j].progress \in 0..100
       /\ jobs'[j].progress < jobs[j].progress => retry_job(j)]_vars

\* No run of job j has begun and nothing cancelled it.
Untouched(j) ==
  /\ \A r \in RunsOf(j) : runs[r].pc = "scheduled"
  /\ jobs[j].completed_at = NoneTime

\* C20: right after create_job the stored record and the returned info are
\* `pending` with progress 0, carry the given id, filename and size, have
\* no result and no error and created_at = updated_at; and status(id)
\* reports `pending` with progress 0 until a run of the job begins.
C20_CreatedJobIsPending ==
  /\ [][\A f \in FileNames, s \in FileSizes, o \in OptionInputs :
          upload_document(f, s, o) =>
            LET id == Len(jobs) + 1
                rec == jobs'[id]
                info == create_job_return(id, f, s, now)
            IN /\ rec.job_id = id /\ info.job_id = id
               /\ rec.filename = f /\ info.filename = f
               /\ rec.file_size = s /\ info.file_size = s
               /\ rec.status = PENDING /\ info.status = PENDING
               /\ rec.progress = 0 /\ info.progress = 0
               /\ rec.result = NoneResult
               /\ rec.error = NoneStr /\ info.error = NoneStr
               /\ rec.created_at = rec.updated_at
               /\ info.created_at = info.updated_at
               /\ info.created_at = rec.created_at]_vars
  /\ [](\A j \in DOMAIN jobs :
          Untouched(j) =>
            /\ get_job_status(jobs, j).status = PENDING
            /\ get_job_status(jobs, j).progress = 0)

\* A job still waiting for its run some time after it was created.
C20_Witness ==
  \E j \in DOMAIN jobs :
    /\ Untouched(j)
    /\ RunsOf(j) # {}
    /\ Status(j) = PENDING
    /\ jobs[j].created_at = jobs[j].updated_at
    /\ now > jobs[j].created_at

\* This step is the call list_jobs(p, n, f).  The answer names the call and
\* its arguments, and is looked at first.
ListCall(p, n, f) ==
  /\ response'.call = "list_jobs"
  /\ response'.payload.page = p
  /\ response'.payload.per_page = n
  /\ response'.status_filter = f
  /\ list_jobs(p, n, f)

\* C21: for an id that was never created, get_job_status, get_job_result,
\* cancel_job and retry_job each raise NotFoundError, which the endpoints
\* answer with 404, and nothing but the answer changes.
C21_UnknownIdIsNotFound ==
  [][\A j \in JobIds \ DOMAIN jobs :
       (\/ get_job_status_call(j)
        \/ get_job_result_call(j)
        \/ CancelCall(j)
        \/ RetryCall(j)) =>
         /\ response'.job_id = j
         /\ response'.outcome = "NotFoundError"
         /\ http_status(response'.outcome) = 404
         /\ UNCHANGED <<store, now>>]_vars

\* The result of an id that does not exist was asked for while another job
\* has one.
C21_Witness ==
  /\ response.call = "get_job_result"
  /\ response.job_id \notin DOMAIN jobs
  /\ response.outcome = "NotFoundError"
  /\ \E j \in DOMAIN jobs : Status(j) = COMPLETED

\* C22: get_job_result returns the stored result exactly when the job
\* exists, is `completed` and has a result; otherwise, so for every
\* `pending`, `processing` or `failed` job, it raises NotFoundError.
C22_ResultOnlyOfCompleted ==
  [][\A j \in JobIds :
       get_job_result_call(j) =>
         IF j \in DOMAIN jobs /\ Status(j) = COMPLETED
              /\ jobs[j].result # NoneResult
           THEN /\ response'.outcome = "returned"
                /\ response'.job_id = j
                /\ response'.payload.job_id = j
                /\ response'.payload.processed_content = jobs[j].result.content
                /\ response'.payload.processing_time =
                     jobs[j].result.processing_time
           ELSE response' = Response("get_job_result", j, "NotFoundError")]_vars

\* The result of a completed job has just been returned.
C22_Witness ==
  \E j \in DOMAIN jobs :
    /\ response.call = "get_job_result"
    /\ response.job_id = j
    /\ response.outcome = "returned"
    /\ Status(j) = COMPLETED
    /\ response.payload.processed_content \in EngineOutputs

\* A call of one of the three reading operations.
ReadCall ==
  \/ \E j \in JobIds : get_job_status_call(j)
  \/ \E j \in JobIds : get_job_result_call(j)
  \/ \E p \in Pages \cup {1}, n \in PerPages \cup {10},
        f \in StatusFilters : ListCall(p, n, f)

\* C27: get_job_status, get_job_result and list_jobs leave the job store
\* and every record in it unchanged, whether they return or raise.
C27_ReadsChangeNothing ==
  [][ReadCall => UNCHANGED <<store, now>>]_vars

\* The jobs have been listed and the store still holds a finished job with
\* its result.
C27_Witness ==
  /\ response.call = "list_jobs"
  /\ response.payload.total = Len(jobs)
  /\ \E j \in DOMAIN jobs :
       /\ Status(j) = COMPLETED
       /\ jobs[j].result # NoneResult

\* C23: list_jobs returns the jobs newest first: a job created later (ids
\* are given in creation order) stands before every job created earlier.
C23_LaterCreatedListedFirst ==
  [][\A p \in Pages, n \in PerPages, f \in StatusFilters :
       ListCall(p, n, f) =>
         LET shown == response'.payload.jobs
         IN \A a, b \in DOMAIN shown :
              a < b => shown[a].job_id > shown[b].job_id]_vars

\* C24: for every page >= 1, per_page >= 1 and filter, list_jobs returns the
\* elements at positions (page-1)*per_page .. page*per_page-1 of the
\* filtered, sorted list (at most per_page jobs, all matching the filter),
\* `total` is the number of all jobs that match the filter whatever the
\* page is, and a page beyond the end is empty, not an error.
C24_PageIsSliceOfFilteredList ==
  [][\A p \in Pages, n \in PerPages, f \in StatusFilters :
       ListCall(p, n, f) =>
         LET full == filtered_jobs(jobs, f)
             shown == response'.payload.jobs
             first == (p - 1) * n
             matching == {j \in DOMAIN jobs :
                            f \in {NoneFilter, ""} \/ jobs[j].status = f}
         IN /\ response'.outcome = "returned"
            /\ Len(shown) <= n
            /\ Len(shown) =
                 Cardinality({k \in first + 1 .. first + n : k <= Len(full)})
            /\ \A i \in DOMAIN shown :
                 /\ shown[i] = job_infos(full[first + i])
                 /\ shown[i].job_id \in matching
            /\ first >= Len(full) => shown = <<>>
            /\ response'.payload.total = Cardinality(matching)
            /\ response'.payload.page = p
            /\ response'.payload.per_page = n]_vars

\* The second page of the failed jobs, one job per page, two jobs failed.
C24_Witness ==
  /\ response.call = "list_jobs"
  /\ response.status_filter = FAILED
  /\ response.payload.page = 2
  /\ response.payload.per_page = 1
  /\ response.payload.total = 2
  /\ Len(response.payload.jobs) = 1
  /\ response.payload.jobs[1].status = FAILED

\* Run r hands its options to the conversion in this step.
EntersEngine(r) ==
  /\ r \in DOMAIN runs'
  /\ runs'[r].pc = "engine"
  /\ (r \in DOMAIN runs => runs[r].pc # "engine")

\* C25: the options every run passes to the conversion, the run that
\* retry_job starts as well as the first one, are the options stored on the
\* job at creation, whatever the options string of the upload was.
C25_RunsUseStoredOptions ==
  [][\A r \in RunIds :
       EntersEngine(r) =>
         LET j == runs'[r].job_id
         IN /\ runs'[r].parsed_options = jobs[j].options
            /\ jobs'[j].options = jobs[j].options]_vars

\* The upload carried text that is not JSON; the run retry_job started was
\* given the text json.dumps made of the stored options and is converting
\* with the stored options.
C25_Witness ==
  \E r1, r2 \in DOMAIN runs :
    /\ runs[r1].job_id = runs[r2].job_id
    /\ runs[r1].caller = "background"
    /\ runs[r1].options = "not json"
    /\ runs[r2].caller = "retry_job"
    /\ runs[r2].options = "{}"
    /\ runs[r2].pc = "engine"
    /\ runs[r2].parsed_options = jobs[runs[r2].job_id].options

\* What is given at creation.
Provenance(job) ==
  <<job.job_id, job.filename, job.file_path, job.file_size, job.options,
    job.created_at>>

\* C26: no step of a run, of cancel_job or of retry_job changes a job's id,
\* filename, file path, file size, options or created_at.
C26_ProvenanceIsImmutable ==
  [][\A j \in DOMAIN jobs : Provenance(jobs'[j]) = Provenance(jobs[j])]_vars

\* A job with options that are not an object, retried and completed some
\* time after its creation.
C26_Witness ==
  \E j \in DOMAIN jobs :
    /\ jobs[j].options = "list(1)"
    /\ Status(j) = COMPLETED
    /\ jobs[j].completed_at > jobs[j].created_at
    /\ \E r \in RunsOf(j) : runs[r].caller = "retry_job"

\* C28: a `completed` job has created_at, started_at and completed_at set,
\* with completed_at >= started_at >= created_at.
C28_CompletedTimestampsOrdered ==
  \A j \in DOMAIN jobs :
    Status(j) = COMPLETED =>
      /\ jobs[j].created_at # NoneTime
      /\ jobs[j].started_at # NoneTime
      /\ jobs[j].completed_at # NoneTime
      /\ jobs[j].completed_at >= jobs[j].started_at
      /\ jobs[j].started_at >= jobs[j].created_at

\* A job completed by its first run after a second run began later.
C28_Witness ==
  \E j \in DOMAIN jobs : \E r1, r2 \in RunsOf(j) :
    /\ Status(j) = COMPLETED
    /\ r1 < r2
    /\ runs[r1].pc = "done"
    /\ runs[r2].pc = "engine"
    /\ jobs[j].started_at > jobs[j].created_at
    /\ jobs[j].completed_at >= jobs[j].started_at

\* This step is the call validate_file(file) / _sanitize_filename(filename).
ValidateCall(file) ==
  /\ response'.call = "validate_file"
  /\ response'.file = file
  /\ validate_file_call(file)
SanitizeCall(filename) ==
  /\ response'.call = "_sanitize_filename"
  /\ response'.filename = filename
  /\ sanitize_filename_call(filename)

\* The names of ValidateNames whose extension is one of the allowed ones,
\* in any case of the letters.
NamesWithAllowedExtension ==
  {<<"a", ".", "p", "d", "f">>, <<"a", ".", "P", "D", "F">>,
   <<"d", "/", "a", ".", "p", "d", "f">>, <<"a", ".", "m", "p", "3">>}

HasDotDot(s) == \E i \in 1..(Len(s) - 1) : s[i] = "." /\ s[i + 1] = "."
\* s contains character c.
HasChar(s, c) == \E i \in DOMAIN s : s[i] = c

\* C30: the output of _sanitize_filename contains no "..", no "/" and no
\* "\", and a name with none of the dangerous characters and no path
\* component comes back unchanged.
C30_SanitizedNameIsSafe ==
  [][\A filename \in SanitizeNames :
       SanitizeCall(filename) =>
         LET out == response'.payload
         IN /\ ~HasDotDot(out)
            /\ ~HasChar(out, "/")
            /\ ~HasChar(out, "\\")
            /\ (/\ ~HasDotDot(filename)
                /\ \A i \in DOMAIN DangerousChars :
                     ~HasChar(filename, DangerousChars[i]))
                 => out = filename]_vars

\* The name ..\a has been sanitized to __a.
C30_Witness ==
  /\ response.call = "_sanitize_filename"
  /\ response.filename = <<".", ".", "\\", "a">>
  /\ response.payload = <<"_", "_", "a">>

\* What get_job_status reports is a whole transition: none of the states a
\* group of writes passes through on its way.
WholeTransition(report) ==
  /\ report.status = PENDING =>
       /\ report.progress = 0
       /\ report.started_at = NoneTime
       /\ report.completed_at = NoneTime
       /\ report.error = NoneStr
  /\ report.status = PROCESSING =>
       /\ report.progress = 30
       /\ report.started_at # NoneTime
  /\ report.status = COMPLETED =>
       /\ report.progress = 100
       /\ report.completed_at # NoneTime
  /\ report.status = FAILED =>
       /\ report.error # NoneStr
       /\ report.completed_at # NoneTime

\* C31: the writes of one transition of a job (run begin, completion,
\* failure, cancel, retry reset) take effect together: whatever a reader
\* is told between two steps is a whole transition, and a job reported
\* `completed` has its result stored.
C31_ReadersSeeWholeTransitions ==
  \A j \in DOMAIN jobs :
    (response.call = "get_job_status" /\ response.job_id = j
       /\ response.outcome = "returned") =>
      /\ response.payload = get_job_status(jobs, j)
      /\ WholeTransition(response.payload)
      /\ response.payload.status = COMPLETED => CanGetResult(jobs, j)

\* A reader is told `completed` while another run of the job is still
\* converting.
C31_Witness ==
  \E j \in DOMAIN jobs :
    /\ response.call = "get_job_status"
    /\ response.job_id = j
    /\ response.outcome = "returned"
    /\ response.payload.status = COMPLETED
    /\ RunsOf(j) \cap InEngine # {}

\* C32: a job in state `processing` has at least one run that has not
\* ended; a job none of whose runs is still active is pending, completed
\* or failed.
C32_ProcessingHasActiveRun ==
  \A j \in DOMAIN jobs :
    /\ Status(j) = PROCESSING => RunsOf(j) \cap InEngine # {}
    /\ RunsOf(j) \cap InEngine = {} => Status(j) \in {PENDING, COMPLETED, FAILED}

\* A processing job one of whose runs has ended while another is converting.
C32_Witness ==
  \E j \in DOMAIN jobs :
    /\ Status(j) = PROCESSING
    /\ \E r \in RunsOf(j) : runs[r].pc = "done"
    /\ RunsOf(j) \cap InEngine # {}

\* ------------------------------------------ create_job with a reused id
\* JobManager.create_job and process_document called with an id the store
\* already holds.  Here `jobs` is the sequence of the record objects that
\* create_job has built, in the order of their creation, and the dict
\* self.jobs maps an id to the last object stored under it (line 77).  A
\* run names its job by id until it begins; from line 240 on it holds the
\* object it found there, and runs[r].job_id is that object.

\* The ids self.jobs holds.
Keys(J) == {J[i].job_id : i \in DOMAIN J}

\* self.jobs[job_id]: the object stored under job_id, 0 if there is none.
Lookup(J, job_id) ==
  LET S == {i \in DOMAIN J : J[i].job_id = job_id}
  IN IF S = {} THEN 0 ELSE CHOOSE i \in S : \A k \in S : k <= i

\* get_job_status (lines 105-120) by id.
status(J, job_id) ==
  [get_job_status(J, Lookup(J, job_id)) EXCEPT !.job_id = job_id]

\* A create_job that keeps the record it finds under the id.
create_job_call_KeepsExisting(job_id, filename, file_size, options) ==
  /\ Len(jobs) < MaxJobs
  /\ jobs' = IF job_id \in Keys(jobs)
               THEN jobs
               ELSE Append(jobs, create_job(job_id, filename,
                                            save_file(filename, job_id),
                                            file_size, options, now))
  /\ response' = Returned("create_job", job_id,
                          create_job_return(job_id, filename, file_size, now))
  /\ UNCHANGED <<processing_queue, active_jobs, model_loaded, runs, now>>

\* A call of create_job (lines 31-88) with an id of the caller's choice.
create_job_call(job_id, filename, file_size, options) ==
  /\ Len(jobs) < MaxJobs
  /\ jobs' = Append(jobs, create_job(job_id, filename,
                                     save_file(filename, job_id),
                                     file_size, options, now))
  /\ response' = Returned("create_job", job_id,
                          create_job_return(job_id, filename, file_size, now))
  /\ UNCHANGED <<processing_queue, active_jobs, model_loaded, runs, now>>

\* The event loop starts the background task r: line 240 finds the object
\* stored under the run's id at that moment.
RunBeginLookup(r) ==
  /\ r \in DOMAIN runs
  /\ runs[r].pc = "scheduled"
  /\ process_document(jobs,
                      [runs EXCEPT ![r].job_id = Lookup(jobs, @)], r)
  /\ response' = NoResponse
  /\ UNCHANGED <<processing_queue, now>>

NextReuse ==
  \/ \E f \in FileNames, s \in FileSizes, o \in OptionInputs :
       upload_document(f, s, o)
  \/ \E k \in 1..(Len(jobs) + 1), f \in FileNames, s \in FileSizes,
        o \in OptionInputs : create_job_call(k, f, s, o)
  \/ \E r \in RunIds : RunBeginLookup(r)
  \/ \E r \in RunIds : EngineReturn(r)
  \/ Tick

ReuseSpec == Init /\ [][NextReuse]_vars

\* The runs that hold a record the store has replaced.
HoldsReplaced(r) ==
  /\ r \in InEngine
  /\ runs[r].job_id # Lookup(jobs, jobs[runs[r].job_id].job_id)

\* C33: create_job checks nothing: called with an id the store holds, it
\* puts a new pending record (progress 0, no result, no error) in the place
\* of the stored one, and a run that holds the replaced record ends without
\* changing what get_job_status reports for the id.
C33_CreateJobReplaces ==
  [][/\ \A k \in Keys(jobs) :
          (/\ response'.call = "create_job"
           /\ response'.job_id = k
           /\ \E f \in FileNames, s \in FileSizes, o \in OptionInputs :
                create_job_call(k, f, s, o))
          => LET n == Lookup(jobs', k)
             IN /\ n \notin DOMAIN jobs
                /\ jobs'[n].status = PENDING
                /\ jobs'[n].progress = 0
                /\ jobs'[n].result = NoneResult
                /\ jobs'[n].error = NoneStr
                /\ status(jobs', k).status = PENDING
                /\ status(jobs', k).progress = 0
     /\ \A r \in DOMAIN runs :
          (HoldsReplaced(r) /\ EngineReturn(r))
          => \A k \in Keys(jobs) : status(jobs', k) = status(jobs, k)
    ]_vars

\* A run that found the first record of an id has completed it after the id
\* was given a new record, which still reads pending.
C33_Witness ==
  \E i, n \in DOMAIN jobs :
    /\ i < n
    /\ jobs[i].job_id = jobs[n].job_id
    /\ n = Lookup(jobs, jobs[n].job_id)
    /\ jobs[i].status = COMPLETED
    /\ jobs[i].completed_at > jobs[n].created_at
    /\ status(jobs, jobs[n].job_id).status = PENDING
    /\ status(jobs, jobs[n].job_id).progress = 0

\* C34: between two operations the updated_at of a job is not earlier than
\* its created_at, its started_at (when set) or its completed_at (when
\* set), and every step of a run, of cancel_job or of retry_job that writes
\* to a job leaves its updated_at at the time of the step.
C34_UpdatedAtIsLatest ==
  /\ [](\A j \in DOMAIN jobs :
          /\ jobs[j].updated_at >= jobs[j].created_at
          /\ jobs[j].started_at # NoneTime =>
               jobs[j].updated_at >= jobs[j].started_at
          /\ jobs[j].completed_at # NoneTime =>
               jobs[j].updated_at >= jobs[j].completed_at)
  /\ [][\A j \in DOMAIN jobs :
          jobs'[j] # jobs[j] => jobs'[j].updated_at = now]_vars

\* A job created at one time and finished at a later one.
C34_Witness ==
  \E j \in DOMAIN jobs :
    /\ jobs[j].completed_at # NoneTime
    /\ jobs[j].completed_at > jobs[j].created_at
    /\ jobs[j].updated_at = jobs[j].completed_at
    /\ jobs[j].started_at # NoneTime
    /\ \E r \in RunsOf(j) : runs[r].pc = "done"

\* Run r ends in the step in which it begins: initialize raised.
InitializeRaised(r) ==
  /\ r \in DOMAIN runs'
  /\ runs'[r].pc = "done"
  /\ r \in DOMAIN runs => runs[r].pc = "scheduled"
  /\ runs'[r].job_id \in DOMAIN jobs'

\* C35: a run in which the initialisation of the converter fails ends with
\* its job failed and carrying the message of the initialisation error, the
\* model stays marked as not loaded, and a run that begins afterwards
\* initialises again: it can reach the conversion.
C35_InitFailureIsNotPermanent ==
  /\ [][\A r \in RunIds :
          InitializeRaised(r) =>
            /\ ~model_loaded
            /\ model_loaded' = FALSE
            /\ \E err \in InitErrors :
                 LET message == Msg("Model initialization failed", err)
                 IN /\ runs'[r].exc = message
                    /\ jobs'[runs'[r].job_id].status = FAILED
                    /\ jobs'[runs'[r].job_id].error = message
                    /\ jobs'[runs'[r].job_id].completed_at = now]_vars
  /\ [](\A r \in DOMAIN runs :
          (runs[r].pc = "scheduled" /\ ~model_loaded) =>
            ENABLED (RunBegin(r) /\ runs'[r].pc = "engine" /\ model_loaded'))

\* The initialisation failed in one run; a later run initialised the
\* converter and is converting.
C35_Witness ==
  \E r1, r2 \in DOMAIN runs :
    /\ r1 < r2
    /\ runs[r1].pc = "done"
    /\ \E err \in InitErrors : runs[r1].exc = InitFailure(err)
    /\ jobs[runs[r1].job_id].status = FAILED
    /\ runs[r2].pc = "engine"
    /\ model_loaded

\* The file passes the checks that stand before the MIME check.
PassesFirstChecks(file) ==
  /\ file.size <= max_file_size
  /\ file.filename # NoneStr
  /\ Lower(Suffix(file.filename)) \in allowed_extensions
  /\ file.chunk # ""

\* C36: where python-magic is there to detect the content type,
\* validate_file raises ValidationError for a file whose detected MIME type
\* is not one of those allowed for its extension.
C36_MimeMismatchRejected ==
  [][\A file \in UploadFiles :
       (ValidateCall(file) /\ PassesFirstChecks(file)
          /\ file.magic = "mismatch")
       => response'.outcome = "ValidationError"]_vars

\* ---------------------------------------------------------- result export
\* ResultHandler.create_export_archive (lines 128-157): the names of the
\* files written to the archive.  The job store is not read: the files are
\* the same for every job_id, known to the store or not.
create_export_archive(job_id, include_metadata, include_images) ==
  {<<job_id, "_document.md">>, <<job_id, "_document.html">>,
   <<job_id, "_document.json">>}
  \cup (IF include_metadata THEN {<<job_id, "_metadata.json">>} ELSE {})
  \cup (IF include_images THEN {<<0, "images/README.txt">>} ELSE {})

\* The endpoint export_result (api/results.py:153-164): the archive is
\* built and sent; nothing in its try block raises NotFoundError.
export_result(job_id, include_metadata, include_images) ==
  /\ response' = [call |-> "export_result", job_id |-> job_id,
                  include_metadata |-> include_metadata,
                  include_images |-> include_images,
                  outcome |-> "returned",
                  payload |-> create_export_archive(job_id, include_metadata,
                                                    include_images)]
  /\ UNCHANGED <<jobs, processing_queue, active_jobs, model_loaded, runs,
                 now>>

NextExport ==
  \/ \E f \in FileNames, s \in FileSizes, o \in OptionInputs :
       upload_document(f, s, o)
  \/ \E r \in RunIds : RunBegin(r)
  \/ \E r \in RunIds : EngineReturn(r)
  \/ \E j \in JobIds, m \in BOOLEAN, i \in BOOLEAN : export_result(j, m, i)

ExportSpec == Init /\ [][NextExport]_vars

\* This step is the call export_result(j, m, i).
ExportCall(j, m, i) ==
  /\ response'.call = "export_result"
  /\ response'.job_id = j
  /\ response'.include_metadata = m
  /\ response'.include_images = i
  /\ export_result(j, m, i)

\* C37: the export of the result archive of a job id the store does not
\* hold, or of a job that has no result (is not completed), fails with
\* NotFoundError, answered with HTTP 404, and builds no archive.
C37_ExportWithoutResultNotFound ==
  [][\A j \in JobIds, m \in BOOLEAN, i \in BOOLEAN :
       (ExportCall(j, m, i) /\ ~CanGetResult(jobs, j))
       => /\ response'.outcome = "NotFoundError"
          /\ http_status(response'.outcome) = 404
          /\ "payload" \notin DOMAIN response']_vars

====
